---- MODULE Spec2Model ----
(***************************************************************************)
(* A model of rcfdtdpy's sim.py: the Field grid (a 2D buffer indexed by    *)
(* [time row, space column] with a time cursor) and the Sim solver that    *)
(* drives the leapfrog update of the magnetic and electric fields.         *)
(*                                                                         *)
(* A Field is a record [n, num_n, num_i, field]; field is a sequence of    *)
(* num_n rows of num_i cells.  Python's 0-based row r and column i are     *)
(* field[r+1][i+1].  Cell values are integers: the physical constants are  *)
(* drawn from values whose quotients are whole numbers, on which float64   *)
(* arithmetic is exact.                                                    *)
(*                                                                         *)
(* Spec     : a constructed Sim, the caller moving grid cursors, and one   *)
(*            run of simulate() taken statement by statement.              *)
(* GridSpec : one Field driven by arbitrary calls of its methods.          *)
(***************************************************************************)
EXTENDS Integers, Sequences, FiniteSets, TLC

VARIABLES num_n, num_i, coef, efield, hfield, cfield, pc, j, err, g, last

vars == <<num_n, num_i, coef, efield, hfield, cfield, pc, j, err, g, last>>

simvars == <<num_n, num_i, coef, efield, hfield, cfield, pc, j, err>>

gridvars == <<g, last>>

(***************************************************************************)
(* Bounds of the model.                                                    *)
(***************************************************************************)
MaxN == 3

MaxI == 3

GMaxCells == 6

(***************************************************************************)
(* Outcome of a call: it returns (ok) or raises (err names the exception); *)
(* f is the Field after the call, ret what the call returned (a value as a *)
(* one-element sequence, a row as the row, nothing as the empty sequence). *)
(***************************************************************************)
Return(f, ret) == [ok |-> TRUE, err |-> "none", f |-> f, ret |-> ret]

Raise(e, f) == [ok |-> FALSE, err |-> e, f |-> f, ret |-> <<>>]

(***************************************************************************)
(* class Field                                                             *)
(***************************************************************************)
Field(nn, ni) ==
    [n |-> 0, num_n |-> nn, num_i |-> ni,
     field |-> [r \in 1..nn |-> [c \in 1..ni |-> 0]]]

get_time_index(f) == f.n

\* set_time_index without the test for a negative index.
set_time_index_upper(f, n) ==
    IF n >= f.num_n
    THEN Raise("IndexError", f)
    ELSE Return([f EXCEPT !.n = n], <<>>)

set_time_index(f, n) ==
    IF n < 0 \/ n >= f.num_n
    THEN Raise("IndexError", f)
    ELSE Return([f EXCEPT !.n = n], <<>>)

\* numpy raises IndexError when the cursor row does not exist (a grid of no
\* rows) ; self._n is otherwise always a row of the buffer.
RowMissing(f) == f.n < 0 \/ f.n >= Len(f.field)

get_field(f, n) ==
    IF n = -1
    THEN IF RowMissing(f) THEN Raise("IndexError", f)
         ELSE Return(f, f.field[f.n + 1])
    ELSE IF n < 0 \/ n >= f.num_n
         THEN Raise("IndexError", f)
         ELSE Return(f, f.field[n + 1])

\* get_index without the test for a negative index: numpy then counts the
\* column from the end of the row.
get_index_wrap(f, i) ==
    IF i >= f.num_i
    THEN 0
    ELSE f.field[f.n + 1][(IF i < 0 THEN i + f.num_i ELSE i) + 1]

\* The value get_index returns; it returns zero outside [0, num_i).
get_index(f, i) ==
    IF i < 0 \/ i >= f.num_i
    THEN 0
    ELSE f.field[f.n + 1][i + 1]

\* get_index as a call: an in-range column of a grid of no rows raises.
get_index_call(f, i) ==
    IF i < 0 \/ i >= f.num_i
    THEN Return(f, <<0>>)
    ELSE IF RowMissing(f) THEN Raise("IndexError", f)
         ELSE Return(f, <<get_index(f, i)>>)

\* self._field[self._n, i] = value: numpy counts a negative i from the end
\* of the row and raises IndexError outside [-num_i, num_i).
set_index(f, i, value) ==
    IF RowMissing(f) \/ i < 0 - f.num_i \/ i >= f.num_i
    THEN Raise("IndexError", f)
    ELSE LET c == IF i < 0 THEN i + f.num_i ELSE i
         IN  Return([f EXCEPT !.field[f.n + 1][c + 1] = value], <<>>)

\* set_field without the range test on an explicit time index.
set_field_unchecked(f, nfield, n) ==
    IF Len(nfield) # f.num_i
    THEN Raise("ValueError", f)
    ELSE IF n = -1
         THEN IF RowMissing(f) THEN Raise("IndexError", f)
              ELSE Return([f EXCEPT !.field[f.n + 1] = nfield], <<>>)
         ELSE Return([f EXCEPT !.field[n + 1] = nfield], <<>>)

set_field(f, nfield, n) ==
    IF Len(nfield) # f.num_i
    THEN Raise("ValueError", f)
    ELSE IF n = -1
         THEN IF RowMissing(f) THEN Raise("IndexError", f)
              ELSE Return([f EXCEPT !.field[f.n + 1] = nfield], <<>>)
         ELSE IF n < 0 \/ n >= f.num_n
              THEN Raise("IndexError", f)
              ELSE Return([f EXCEPT !.field[n + 1] = nfield], <<>>)

\* iterate that moves the cursor and copies nothing.
iterate_nocopy(f) ==
    IF f.n + 1 >= f.num_n
    THEN Raise("IndexError", f)
    ELSE Return([f EXCEPT !.n = f.n + 1], <<>>)

\* iterate whose range test lets the cursor take one step more.
iterate_late(f) ==
    IF f.n + 1 > f.num_n
    THEN Raise("IndexError", f)
    ELSE Return([f EXCEPT !.field[f.n + 2] = f.field[f.n + 1],
                          !.n = f.n + 1], <<>>)

iterate(f) ==
    IF f.n + 1 >= f.num_n
    THEN Raise("IndexError", f)
    ELSE Return([f EXCEPT !.field[f.n + 2] = f.field[f.n + 1],
                          !.n = f.n + 1], <<>>)

export(f) == f.field

(***************************************************************************)
(* class Sim                                                               *)
(***************************************************************************)
\* Constructor arguments.  Sim.__init__ divides by eps_inf + chi_0, by
\* eps_0 * delta_z * (eps_inf + chi_0), by eps_0 * (eps_inf + chi_0) and by
\* mu_0 * delta_z: a zero divisor raises ZeroDivisionError and no Sim is
\* constructed.  The tuples kept are those whose five quotients are whole.
Eps0Values == {1, 2}

EpsInfValues == {0, 1}

Mu0Values == {1, 2}

DeltaTValues == {1, 2}

DeltaZValues == {1, 2}

Chi0Values == {0, 1}

Divides(d, a) == d # 0 /\ a % d = 0

Coefficients(p) ==
    [c1 |-> p.eps_inf \div (p.eps_inf + p.chi_0),
     c2 |-> 1 \div (p.eps_inf + p.chi_0),
     c3 |-> p.delta_t \div (p.eps_0 * p.delta_z * (p.eps_inf + p.chi_0)),
     c4 |-> p.delta_t \div (p.eps_0 * (p.eps_inf + p.chi_0)),
     ch |-> p.delta_t \div (p.mu_0 * p.delta_z)]

PhysParams ==
    {p \in [eps_0 : Eps0Values, eps_inf : EpsInfValues, mu_0 : Mu0Values,
            delta_t : DeltaTValues, delta_z : DeltaZValues,
            chi_0 : Chi0Values] :
        /\ Divides(p.eps_inf + p.chi_0, p.eps_inf)
        /\ Divides(p.eps_inf + p.chi_0, 1)
        /\ Divides(p.eps_0 * p.delta_z * (p.eps_inf + p.chi_0), p.delta_t)
        /\ Divides(p.eps_0 * (p.eps_inf + p.chi_0), p.delta_t)
        /\ Divides(p.mu_0 * p.delta_z, p.delta_t)}

\* psi that does not vanish.
psi_one == 1

psi == 0

current(i) == get_index(cfield, i)

\* _calc_hfield taking the old value from the cell to the left, a cell the
\* pass has already written.
calc_hfield_value_self(h, e, i) ==
    LET term1 == get_index(h, i - 1)
        term2 == coef.ch * (get_index(e, i + 1) - get_index(e, i))
    IN  term1 - term2

\* _calc_hfield with the difference taken one cell to the left.
calc_hfield_value_left(h, e, i) ==
    LET term1 == get_index(h, i)
        term2 == coef.ch * (get_index(e, i) - get_index(e, i - 1))
    IN  term1 - term2

\* The value _calc_hfield stores into H[i], from the rows h and e.
calc_hfield_value(h, e, i) ==
    LET term1 == get_index(h, i)
        term2 == coef.ch * (get_index(e, i + 1) - get_index(e, i))
    IN  term1 - term2

\* The loop of _calc_hfield from index i on: cells are written in place, in
\* ascending order.
RECURSIVE calc_hfield_from(_, _, _)
calc_hfield_from(h, e, i) ==
    IF i >= num_i
    THEN h
    ELSE calc_hfield_from(set_index(h, i, calc_hfield_value(h, e, i)).f,
                          e, i + 1)

calc_hfield == calc_hfield_from(hfield, efield, 0)

\* _calc_efield with the difference taken one cell to the right.
calc_efield_value_right(e, h, i) ==
    LET term1 == coef.c1 * get_index(e, i)
        term2 == coef.c2 * psi
        term3 == coef.c3 * (get_index(h, i + 1) - get_index(h, i))
        term4 == coef.c4 * current(i)
    IN  term1 + term2 - term3 - term4

\* The value _calc_efield stores into E[i], from the rows e and h.
calc_efield_value(e, h, i) ==
    LET term1 == coef.c1 * get_index(e, i)
        term2 == coef.c2 * psi
        term3 == coef.c3 * (get_index(h, i) - get_index(h, i - 1))
        term4 == coef.c4 * current(i)
    IN  term1 + term2 - term3 - term4

RECURSIVE calc_efield_from(_, _, _)
calc_efield_from(e, h, i) ==
    IF i >= num_i
    THEN e
    ELSE calc_efield_from(set_index(e, i, calc_efield_value(e, h, i)).f,
                          h, i + 1)

calc_efield == calc_efield_from(efield, hfield, 0)

\* _iterate_cfield that sets the cursor back to where it was.
iterate_cfield_stay ==
    LET prior_time == get_time_index(cfield)
    IN  set_time_index(cfield, prior_time)

\* _iterate_cfield that stays on the last row instead of failing.
iterate_cfield_clamp ==
    LET prior_time == get_time_index(cfield)
        r == set_time_index(cfield, prior_time + 1)
    IN  IF r.ok THEN r ELSE Return(cfield, <<>>)

\* _iterate_cfield that advances the current field as H and E are advanced.
iterate_cfield_copy == iterate(cfield)

iterate_cfield ==
    LET prior_time == get_time_index(cfield)
    IN  set_time_index(cfield, prior_time + 1)

(***************************************************************************)
(* The current field the caller hands to Sim: Field(cn, ci), all zero, or  *)
(* with one cell set through set_time_index(r); [s] = v; the cursor is     *)
(* left to the caller (CallerSetTimeIndex).                                *)
(***************************************************************************)
PulseValues == {1}

Pulse(cn, ci, r, s, v) ==
    LET f0 == Field(cn, ci)
        f1 == set_index(set_time_index(f0, r).f, s, v).f
    IN  set_time_index(f1, 0).f

CurrentFields(cn, ci) ==
    {Field(cn, ci)} \cup
    {Pulse(cn, ci, r, s, v) : r \in 0..(cn - 1), s \in 0..(ci - 1),
                              v \in PulseValues}

\* Shapes of the caller's current field: the Sim's own (nn, ni), or one that
\* differs from it in the number of rows or of columns.
CurrentShapes(nn, ni) ==
    {<<cn, ni>> : cn \in 0..MaxN} \cup {<<nn, ci>> : ci \in 0..MaxI}

\* A Field that no action of the specification touches.
NoField == Field(0, 0)

NoCall == [op |-> "none", arg |-> 0, len |-> 0, ok |-> TRUE,
           err |-> "none", ret |-> <<>>]

Init ==
    /\ \E nn \in 0..MaxN, ni \in 0..MaxI :
         /\ num_n = nn
         /\ num_i = ni
         /\ efield = Field(nn, ni)
         /\ hfield = Field(nn, ni)
         /\ \E s \in CurrentShapes(nn, ni) :
              cfield \in CurrentFields(s[1], s[2])
    /\ \E p \in PhysParams : coef = Coefficients(p)
    /\ pc = "idle"
    /\ j = 0
    /\ err = "none"
    /\ g = NoField
    /\ last = NoCall

\* Before simulate() the caller moves the cursor of one of the three grids
\* (get_efield(), get_hfield(), get_cfield() hand them out).
CallerSetTimeIndex ==
    /\ pc = "idle"
    /\ \E n \in 0..MaxN :
         \/ /\ efield' = set_time_index(efield, n).f
            /\ UNCHANGED <<hfield, cfield>>
         \/ /\ hfield' = set_time_index(hfield, n).f
            /\ UNCHANGED <<efield, cfield>>
         \/ /\ cfield' = set_time_index(cfield, n).f
            /\ UNCHANGED <<efield, hfield>>
    /\ UNCHANGED <<num_n, num_i, coef, pc, j, err, g, last>>

\* The program position after a call of simulate(): the next statement, or
\* the exception leaving simulate().
Step(r, next) ==
    /\ pc' = IF r.ok THEN next ELSE "raised"
    /\ err' = r.err

\* The loop running once for every row.
LoopTest_every(k) == IF k < num_n THEN "calc_hfield" ELSE "done"

\* for j in range(num_n - 1): the loop body runs while j < num_n - 1.
LoopTest(k) == IF k < num_n - 1 THEN "calc_hfield" ELSE "done"

simulate_set_e ==
    /\ pc = "idle"
    /\ LET r == set_time_index(efield, 0)
       IN  efield' = r.f /\ Step(r, "set_h")
    /\ UNCHANGED <<num_n, num_i, coef, hfield, cfield, j, g, last>>

simulate_set_h ==
    /\ pc = "set_h"
    /\ LET r == set_time_index(hfield, 0)
       IN  hfield' = r.f /\ Step(r, "set_c")
    /\ UNCHANGED <<num_n, num_i, coef, efield, cfield, j, g, last>>

simulate_set_c ==
    /\ pc = "set_c"
    /\ LET r == set_time_index(cfield, 0)
       IN  cfield' = r.f /\ Step(r, LoopTest(0))
    /\ j' = 0
    /\ UNCHANGED <<num_n, num_i, coef, efield, hfield, g, last>>

simulate_calc_hfield ==
    /\ pc = "calc_hfield"
    /\ hfield' = calc_hfield
    /\ pc' = "calc_efield"
    /\ UNCHANGED <<num_n, num_i, coef, efield, cfield, j, err, g, last>>

simulate_calc_efield ==
    /\ pc = "calc_efield"
    /\ efield' = calc_efield
    /\ pc' = "iterate_h"
    /\ UNCHANGED <<num_n, num_i, coef, hfield, cfield, j, err, g, last>>

simulate_iterate_h ==
    /\ pc = "iterate_h"
    /\ LET r == iterate(hfield)
       IN  hfield' = r.f /\ Step(r, "iterate_e")
    /\ UNCHANGED <<num_n, num_i, coef, efield, cfield, j, g, last>>

simulate_iterate_e ==
    /\ pc = "iterate_e"
    /\ LET r == iterate(efield)
       IN  efield' = r.f /\ Step(r, "iterate_c")
    /\ UNCHANGED <<num_n, num_i, coef, hfield, cfield, j, g, last>>

simulate_iterate_cfield ==
    /\ pc = "iterate_c"
    /\ LET r == iterate_cfield
       IN  /\ cfield' = r.f
           /\ Step(r, LoopTest(j + 1))
           /\ j' = IF r.ok THEN j + 1 ELSE j
    /\ UNCHANGED <<num_n, num_i, coef, efield, hfield, g, last>>

Next ==
    \/ CallerSetTimeIndex
    \/ simulate_set_e
    \/ simulate_set_h
    \/ simulate_set_c
    \/ simulate_calc_hfield
    \/ simulate_calc_efield
    \/ simulate_iterate_h
    \/ simulate_iterate_e
    \/ simulate_iterate_cfield

Spec == Init /\ [][Next]_vars

(***************************************************************************)
(* GridSpec: one Field and the calls a caller makes on it.  last records   *)
(* the latest call: its name, its index argument (arg), the length of its  *)
(* row argument (len), whether it returned, the exception, and what it     *)
(* returned.                                                               *)
(***************************************************************************)
CellValues == {0, 1}

\* Shapes of the grid: every (num_n, num_i) of at most GMaxCells cells.
GridShapes ==
    {s \in (0..GMaxCells) \X (0..GMaxCells) : s[1] * s[2] <= GMaxCells}

\* Column arguments for a grid: the columns of the grid, the negative
\* indices numpy accepts, and one index beyond on either side.
IndexArgs(f) == (0 - (f.num_i + 1))..f.num_i

\* Time arguments for a grid: its rows, the row after the last, -1 (the
\* default of get_field and set_field) and -2.
TimeArgs(f) == (0 - 2)..f.num_n

\* Row arguments of set_field for a grid of ni columns: every row of the
\* right length, and rows one cell shorter and one cell longer.
RowArgs(ni) ==
    [1..ni -> CellValues] \cup {[c \in 1..(ni + 1) |-> 1]}
        \cup (IF ni > 0 THEN {[c \in 1..(ni - 1) |-> 1]} ELSE {})

Called(op, arg, row, r) ==
    [op |-> op, arg |-> arg, len |-> Len(row), ok |-> r.ok, err |-> r.err,
     ret |-> r.ret]

GInit ==
    /\ num_n = 0
    /\ num_i = 0
    /\ coef = [c1 |-> 0, c2 |-> 0, c3 |-> 0, c4 |-> 0, ch |-> 0]
    /\ efield = NoField
    /\ hfield = NoField
    /\ cfield = NoField
    /\ pc = "idle"
    /\ j = 0
    /\ err = "none"
    /\ \E s \in GridShapes : g = Field(s[1], s[2])
    /\ last = NoCall

Grid_get_time_index ==
    /\ last' = Called("get_time_index", 0, <<>>,
                      Return(g, <<get_time_index(g)>>))
    /\ UNCHANGED <<g, simvars>>

Grid_set_time_index ==
    \E n \in TimeArgs(g) :
        LET r == set_time_index(g, n)
        IN  /\ g' = r.f
            /\ last' = Called("set_time_index", n, <<>>, r)
            /\ UNCHANGED simvars

Grid_get_field ==
    \E n \in TimeArgs(g) :
        LET r == get_field(g, n)
        IN  /\ g' = r.f
            /\ last' = Called("get_field", n, <<>>, r)
            /\ UNCHANGED simvars

Grid_get_index ==
    \E i \in IndexArgs(g) :
        LET r == get_index_call(g, i)
        IN  /\ g' = r.f
            /\ last' = Called("get_index", i, <<>>, r)
            /\ UNCHANGED simvars

Grid_set_index ==
    \E i \in IndexArgs(g), v \in CellValues :
        LET r == set_index(g, i, v)
        IN  /\ g' = r.f
            /\ last' = Called("set_index", i, <<>>, r)
            /\ UNCHANGED simvars

Grid_set_field ==
    \E n \in TimeArgs(g), nfield \in RowArgs(g.num_i) :
        LET r == set_field(g, nfield, n)
        IN  /\ g' = r.f
            /\ last' = Called("set_field", n, nfield, r)
            /\ UNCHANGED simvars

Grid_iterate ==
    LET r == iterate(g)
    IN  /\ g' = r.f
        /\ last' = Called("iterate", 0, <<>>, r)
        /\ UNCHANGED simvars

\* export() returns the buffer itself; last.ret holds its rows end to end.
RECURSIVE Flatten(_)
Flatten(rows) ==
    IF rows = <<>> THEN <<>> ELSE Head(rows) \o Flatten(Tail(rows))

Grid_export ==
    /\ last' = Called("export", 0, <<>>, Return(g, Flatten(export(g))))
    /\ UNCHANGED <<g, simvars>>

GNext ==
    \/ Grid_get_time_index
    \/ Grid_set_time_index
    \/ Grid_get_field
    \/ Grid_get_index
    \/ Grid_set_index
    \/ Grid_set_field
    \/ Grid_iterate
    \/ Grid_export

GridSpec == GInit /\ [][GNext]_vars

\* simulate() runs to completion once called: every statement after the call
\* is eventually executed.
LiveSpec ==
    /\ Init
    /\ [][Next]_vars
    /\ WF_vars(simulate_set_h \/ simulate_set_c \/ simulate_calc_hfield
               \/ simulate_calc_efield \/ simulate_iterate_h
               \/ simulate_iterate_e \/ simulate_iterate_cfield)

(***************************************************************************)
(* Properties.                                                             *)
(***************************************************************************)
\* The cell at row r, column i of a grid, zero outside its columns.
At(f, r, i) == IF i < 0 \/ i >= f.num_i THEN 0 ELSE f.field[r + 1][i + 1]

Columns == 0..(num_i - 1)

AllZero(f) == \A r \in 1..f.num_n : \A c \in 1..f.num_i : f.field[r][c] = 0

\* The Sim's shape is that of its current field, and it has a row.
Matching == num_n >= 1 /\ cfield.num_n = num_n /\ cfield.num_i = num_i

\* The magnetic row before the magnetic pass of the iteration at cursor n:
\* zero in the first iteration, afterwards the row the advance copied.
HBefore(i) == IF hfield.n = 0 THEN 0 ELSE At(hfield, hfield.n - 1, i)

\* The magnetic row the magnetic pass of this iteration produces from
\* HBefore and the electric row.
HAfter(i) ==
    IF i < 0 \/ i >= num_i THEN 0
    ELSE HBefore(i)
         - coef.ch * (At(efield, efield.n, i + 1) - At(efield, efield.n, i))

\* C1: the electric pass sets every E[i] to
\* c1*E_old[i] + c2*psi - c3*(H_new[i] - H_new[i-1]) - c4*J[i], with psi = 0,
\* H_new the row the magnetic pass of the same iteration produced (zero at
\* index -1) and J the cursor row of the current field.
C1_ElectricPass ==
    [][(pc = "calc_efield" /\ pc' = "iterate_h") =>
        \A i \in Columns :
            At(efield', efield.n, i) =
                coef.c1 * At(efield, efield.n, i) + coef.c2 * 0
                - coef.c3 * (HAfter(i) - HAfter(i - 1))
                - coef.c4 * At(cfield, cfield.n, i)]_vars

\* The electric pass of the second iteration has run and changed a cell on
\* a magnetic row that is not zero.
C1_Witness ==
    /\ pc = "iterate_h"
    /\ j = 1
    /\ \E i \in Columns : At(efield, 1, i) # At(efield, 0, i)
    /\ \E i \in Columns : At(hfield, 1, i) # 0

\* C2: the magnetic pass sets every H[i] to H_old[i] - ch*(E[i+1] - E[i]),
\* E being the electric row before the electric pass (zero at index num_i),
\* and leaves the electric grid as it is.
C2_MagneticPass ==
    [][(pc = "calc_hfield" /\ pc' = "calc_efield") =>
        /\ efield' = efield
        /\ \A i \in Columns :
             At(hfield', hfield.n, i) =
                 At(hfield, hfield.n, i)
                 - coef.ch * (At(efield, efield.n, i + 1)
                              - At(efield, efield.n, i))]_vars

\* The magnetic pass has run on an electric row that is not zero and has
\* changed the last cell, whose right neighbour is outside the grid.
C2_Witness ==
    /\ pc = "calc_efield"
    /\ j = 1
    /\ num_i >= 2
    /\ At(efield, 1, num_i - 1) # 0
    /\ At(hfield, 1, num_i - 1) # At(hfield, 0, num_i - 1)

\* C3: after the cursor reset and after every completed iteration the three
\* cursors are equal (to the number of completed iterations); within an
\* iteration H is advanced first, then E, then the current field.
C3_Lockstep ==
    /\ pc \in {"calc_hfield", "calc_efield", "iterate_h", "done"} =>
         hfield.n = j /\ efield.n = j /\ cfield.n = j
    /\ pc = "iterate_e" =>
         hfield.n = j + 1 /\ efield.n = j /\ cfield.n = j
    /\ pc = "iterate_c" =>
         hfield.n = j + 1 /\ efield.n = j + 1 /\ cfield.n = j

\* Two iterations are complete; H and E are advanced, the current field is
\* about to be.
C3_Witness ==
    /\ pc = "iterate_c"
    /\ j = 1
    /\ hfield.n = 2
    /\ efield.n = 2
    /\ cfield.n = 1

\* C4: with num_n >= 1 and a current field of the Sim's shape, simulate()
\* sets the three cursors to 0 whatever they were, raises nothing, runs
\* exactly num_n - 1 iterations and ends with the cursors at num_n - 1.
C4_Simulate ==
    /\ [](Matching => pc # "raised")
    /\ [][(Matching /\ pc = "set_c") =>
            efield'.n = 0 /\ hfield'.n = 0 /\ cfield'.n = 0]_vars
    /\ [](Matching => j <= num_n - 1)
    /\ []((Matching /\ pc = "done") =>
            /\ j = num_n - 1
            /\ efield.n = num_n - 1
            /\ hfield.n = num_n - 1
            /\ cfield.n = num_n - 1)
    /\ ((Matching /\ pc = "set_h") ~> (pc = "done"))

\* simulate() has ended after two iterations on three rows.
C4_Witness ==
    /\ Matching
    /\ num_n = 3
    /\ pc = "done"
    /\ j = 2

\* C4 (the reset): simulate() is called with the three cursors off zero.
C4_WitnessReset ==
    /\ Matching
    /\ pc = "set_h"
    /\ hfield.n > 0
    /\ cfield.n > 0

\* The row r of a grid.
Row(f, r) == f.field[r + 1]

\* An advance of H or E copies the active row n into row n+1 and moves the
\* cursor to n+1.
AdvanceCopies(f, fnext) ==
    /\ fnext.n = f.n + 1
    /\ Row(fnext, f.n + 1) = Row(f, f.n)

\* C5 as stated: the advance step copies the active row forward and moves
\* the cursor for H, E and the current field alike.
C5_Original ==
    [][/\ (pc = "iterate_h" /\ pc' = "iterate_e") =>
            AdvanceCopies(hfield, hfield')
       /\ (pc = "iterate_e" /\ pc' = "iterate_c") =>
            AdvanceCopies(efield, efield')
       /\ (pc = "iterate_c" /\ pc' # "raised") =>
            AdvanceCopies(cfield, cfield')]_vars

\* C5 amended: the advance step copies the active row n into row n+1 and
\* moves the cursor to n+1 for H and E; for the current field it only
\* moves the cursor to n+1 and leaves every cell as it was.
C5_Advance ==
    [][/\ (pc = "iterate_h" /\ pc' = "iterate_e") =>
            AdvanceCopies(hfield, hfield')
       /\ (pc = "iterate_e" /\ pc' = "iterate_c") =>
            AdvanceCopies(efield, efield')
       /\ (pc = "iterate_c" /\ pc' # "raised") =>
            /\ cfield'.n = cfield.n + 1
            /\ cfield'.field = cfield.field]_vars

\* The current field was advanced from a row onto a different row, after H
\* and E were advanced with a row that is not zero.
C5_Witness ==
    /\ pc \in {"calc_hfield", "done"}
    /\ j >= 1
    /\ Row(cfield, j) # Row(cfield, j - 1)
    /\ Row(efield, j) = Row(efield, j - 1)
    /\ \E i \in Columns : At(efield, j, i) # 0

\* The current field is zero but for one cell, at row 0 and column s.
Impulse(s) ==
    /\ cfield.num_n >= 1
    /\ s \in 0..(cfield.num_i - 1)
    /\ At(cfield, 0, s) # 0
    /\ \A r \in 0..(cfield.num_n - 1) : \A i \in 0..(cfield.num_i - 1) :
         (r # 0 \/ i # s) => At(cfield, r, i) = 0

Dist(a, b) == IF a >= b THEN a - b ELSE b - a

\* C6: with a current field that is zero but for one cell at row 0 and
\* column s, after simulate() the electric field at row n and column i is
\* zero wherever |i - s| > n.
C6_Causal ==
    \A s \in 0..MaxI :
        (Impulse(s) /\ pc = "done") =>
            \A n \in 0..(num_n - 1) : \A i \in Columns :
                Dist(i, s) > n => At(efield, n, i) = 0

\* simulate() has ended on an impulse; the disturbance has moved one cell
\* in row 1 and a cell two columns away is still zero.
C6_Witness ==
    /\ pc = "done"
    /\ num_n >= 3
    /\ \E s \in Columns :
         /\ Impulse(s)
         /\ s + 2 < num_i
         /\ At(efield, 0, s) # 0
         /\ At(efield, 1, s + 1) # 0
         /\ At(efield, 1, s + 2) = 0

\* C7: with an all-zero current field, every cell of the electric and of
\* the magnetic grid is zero in every state during and after simulate().
C7_ZeroFixpoint ==
    AllZero(cfield) => AllZero(efield) /\ AllZero(hfield)

\* simulate() has ended on an all-zero current field of several rows and
\* columns.
C7_Witness ==
    /\ pc = "done"
    /\ AllZero(cfield)
    /\ Matching
    /\ num_n >= 3
    /\ num_i >= 2

\* C8: the time cursor of a Grid satisfies 0 <= n < num_n after construction
\* and after any sequence of calls.
C8_CursorInRange == 0 <= g.n /\ g.n < g.num_n

\* C9: a successful advance makes row n+1 a copy of the row n of before the
\* call, moves the cursor to n+1 and leaves every other row, row n
\* included, and the shape as they were.
C9_AdvanceFrame ==
    [][(last'.op = "iterate" /\ last'.ok) =>
        /\ g'.n = g.n + 1
        /\ g'.num_n = g.num_n
        /\ g'.num_i = g.num_i
        /\ Len(g'.field) = Len(g.field)
        /\ Row(g', g.n + 1) = Row(g, g.n)
        /\ \A r \in 0..(g.num_n - 1) :
             r # g.n + 1 => Row(g', r) = Row(g, r)]_vars

\* An advance has copied a row that is not zero, on a grid that has
\* another row that differs from it.
C9_Witness ==
    /\ last.op = "iterate"
    /\ last.ok
    /\ g.n >= 1
    /\ Row(g, g.n) = Row(g, g.n - 1)
    /\ \E c \in 1..g.num_i : Row(g, g.n)[c] # 0
    /\ \E r \in 0..(g.num_n - 1) : Row(g, r) # Row(g, g.n)

\* C10: advance() succeeds, moving the cursor by one, exactly while the
\* cursor is below num_n - 1, so that from cursor 0 exactly num_n - 1 calls
\* succeed and end at num_n - 1; any further call raises the out-of-range
\* error and leaves the cursor and every cell as they were.
C10_AdvanceCount ==
    [][(last'.op = "iterate") =>
        IF g.n < g.num_n - 1
        THEN last'.ok /\ g'.n = g.n + 1
        ELSE (~last'.ok) /\ last'.err = "IndexError" /\ g' = g]_vars

\* An advance has failed at the last row of a grid of several rows whose
\* last row is not zero.
C10_Witness ==
    /\ last.op = "iterate"
    /\ ~last.ok
    /\ g.num_n >= 3
    /\ g.n = g.num_n - 1
    /\ \E c \in 1..g.num_i : Row(g, g.n)[c] # 0

\* C11 as stated: on every grid, at every cursor and content, get_index(i)
\* returns zero and raises nothing for i < 0 or i >= num_i, and returns the
\* cell at (cursor row, i) for 0 <= i < num_i.
C11_GetValue ==
    [][(last'.op = "get_index") =>
        /\ g' = g
        /\ last'.ok
        /\ last'.ret = <<At(g, g.n, last'.arg)>>]_vars

\* C11 on the grids that have a row: there get_index(i) returns zero
\* outside [0, num_i) and the cell of the cursor row inside.
C11_WithRows ==
    [][(last'.op = "get_index" /\ g.num_n >= 1) =>
        /\ g' = g
        /\ last'.ok
        /\ last'.ret = <<At(g, g.n, last'.arg)>>]_vars

\* C12 as stated: set_index(i, value) with i outside [0, num_i), negative i
\* included, changes no cell of the grid; with 0 <= i < num_i it changes at
\* most the cell at (cursor row, i).
C12_SetValue ==
    [][(last'.op = "set_index") =>
        /\ g'.n = g.n
        /\ IF last'.arg < 0 \/ last'.arg >= g.num_i
           THEN g'.field = g.field
           ELSE \A r \in 0..(g.num_n - 1) : \A i \in 0..(g.num_i - 1) :
                    (r # g.n \/ i # last'.arg) =>
                        At(g', r, i) = At(g, r, i)]_vars

\* C13: set_time_index(n) with n < 0 or n >= num_n raises the out-of-range
\* error and leaves the cursor and the buffer as they were; with
\* 0 <= n < num_n it succeeds, and get_time_index() then returns n.
C13_SetTimeIndex ==
    [][/\ (last'.op = "set_time_index") =>
            IF last'.arg < 0 \/ last'.arg >= g.num_n
            THEN (~last'.ok) /\ last'.err = "IndexError" /\ g' = g
            ELSE /\ last'.ok
                 /\ g'.n = last'.arg
                 /\ g'.field = g.field
                 /\ g'.num_n = g.num_n
                 /\ g'.num_i = g.num_i
       /\ (last'.op = "get_time_index") =>
            last'.ok /\ last'.ret = <<g.n>> /\ g' = g]_vars

\* get_time_index() has returned a cursor off zero, which only a successful
\* set_time_index or iterate can have set, on a grid whose content is not
\* zero.
C13_Witness ==
    /\ last.op = "get_time_index"
    /\ last.ret = <<g.n>>
    /\ g.n = 2
    /\ \E c \in 1..g.num_i : Row(g, 0)[c] # 0

\* C13 (the failure): set_time_index has been refused for a negative index.
C13_WitnessRefused ==
    /\ last.op = "set_time_index"
    /\ last.arg < 0
    /\ ~last.ok
    /\ g.n >= 1

\* C14 as stated: get_field(n), and set_field(row, n) with a row of length
\* num_i, raise the out-of-range error for every passed n with n < 0 or
\* n >= num_n, return no row and write nothing.
C14_Original ==
    [][((last'.op = "get_field"
            \/ (last'.op = "set_field" /\ last'.len = g.num_i))
        /\ (last'.arg < 0 \/ last'.arg >= g.num_n)) =>
        /\ ~last'.ok
        /\ last'.err = "IndexError"
        /\ last'.ret = <<>>
        /\ g' = g]_vars

\* C14 amended: get_field(n), and set_field(row, n) with a row of length
\* num_i, raise the out-of-range error, return no row and write nothing
\* for every passed n with n < -1 or n >= num_n; n = -1 is the value of the
\* omitted argument and is served as the cursor row: on a grid with a row
\* get_field(-1) returns the cursor row and set_field(row, -1) replaces it.
C14_ExplicitRow ==
    [][(last'.op = "get_field"
            \/ (last'.op = "set_field" /\ last'.len = g.num_i)) =>
        /\ (last'.arg < 0 - 1 \/ last'.arg >= g.num_n) =>
            /\ ~last'.ok
            /\ last'.err = "IndexError"
            /\ last'.ret = <<>>
            /\ g' = g
        /\ (last'.arg = 0 - 1 /\ g.num_n >= 1) =>
            /\ last'.ok
            /\ g'.n = g.n
            /\ last'.op = "get_field" =>
                 g' = g /\ last'.ret = Row(g, g.n)
            /\ \A r \in 0..(g.num_n - 1) :
                 r # g.n => Row(g', r) = Row(g, r)]_vars

\* set_field with a row of the right length has been refused for the time
\* index -2, on a grid of several rows that is not zero.
C14_Witness ==
    /\ last.op = "set_field"
    /\ last.len = g.num_i
    /\ last.arg = 0 - 2
    /\ ~last.ok
    /\ g.num_n >= 2
    /\ \E c \in 1..g.num_i : Row(g, g.n)[c] # 0

\* C14 (the default): get_field(-1) has returned the cursor row.
C14_WitnessDefault ==
    /\ last.op = "get_field"
    /\ last.arg = 0 - 1
    /\ last.ok
    /\ g.n >= 1
    /\ last.ret = Row(g, g.n)
    /\ \E c \in 1..g.num_i : Row(g, g.n)[c] # 0

\* The row a set_field call addresses: the cursor row for n = -1.
Target(f, n) == IF n = 0 - 1 THEN f.n ELSE n

\* C15 as stated: set_field(row, n) with a row whose length is not num_i
\* raises the length error for every n, given or defaulted, and leaves the
\* cursor and every cell as they were; with a row of length num_i and a
\* valid or defaulted n it replaces exactly that row and no other.
C15_SetRow ==
    [][(last'.op = "set_field") =>
        IF last'.len # g.num_i
        THEN (~last'.ok) /\ last'.err = "ValueError" /\ g' = g
        ELSE (last'.arg = 0 - 1
                \/ (0 <= last'.arg /\ last'.arg < g.num_n)) =>
                /\ last'.ok
                /\ g'.n = g.n
                /\ Len(g'.field) = Len(g.field)
                /\ Len(Row(g', Target(g, last'.arg))) = g.num_i
                /\ \A r \in 0..(g.num_n - 1) :
                     r # Target(g, last'.arg) => Row(g', r) = Row(g, r)]_vars

\* C15 on the grids that have a row.
C15_WithRows ==
    [][(last'.op = "set_field" /\ g.num_n >= 1) =>
        IF last'.len # g.num_i
        THEN (~last'.ok) /\ last'.err = "ValueError" /\ g' = g
        ELSE (last'.arg = 0 - 1
                \/ (0 <= last'.arg /\ last'.arg < g.num_n)) =>
                /\ last'.ok
                /\ g'.n = g.n
                /\ Len(g'.field) = Len(g.field)
                /\ Len(Row(g', Target(g, last'.arg))) = g.num_i
                /\ \A r \in 0..(g.num_n - 1) :
                     r # Target(g, last'.arg) => Row(g', r) = Row(g, r)]_vars

\* C16: in every state of a constructed Sim the electric, the magnetic and
\* the current field all have the Sim's shape (num_n, num_i).
C16_Shapes ==
    /\ efield.num_n = num_n /\ efield.num_i = num_i
    /\ hfield.num_n = num_n /\ hfield.num_i = num_i
    /\ cfield.num_n = num_n /\ cfield.num_i = num_i

\* The current field has rows, but fewer than the Sim.
ShortCurrent == 1 <= cfield.num_n /\ cfield.num_n < num_n

\* C17: a failure of a grid call inside simulate() is neither suppressed nor
\* retried.  The failing call changes no grid and ends simulate() with its
\* IndexError, after which nothing changes; with a current field of m rows,
\* 1 <= m < num_n, simulate() never completes: it ends in the iteration of
\* index m - 1, where the current field cannot be advanced, with H and E
\* already advanced to row m and the rows written so far in place.
C17_Abort ==
    /\ [][(pc # "raised" /\ pc' = "raised") =>
            /\ err' = "IndexError"
            /\ efield' = efield
            /\ hfield' = hfield
            /\ cfield' = cfield
            /\ j' = j]_vars
    /\ [][pc = "raised" => UNCHANGED vars]_vars
    /\ [](pc = "raised" => err = "IndexError")
    /\ [](ShortCurrent => pc # "done" /\ j <= cfield.num_n - 1)
    /\ []((ShortCurrent /\ pc = "raised") =>
            /\ j = cfield.num_n - 1
            /\ hfield.n = cfield.num_n
            /\ efield.n = cfield.num_n
            /\ cfield.n = cfield.num_n - 1
            /\ Row(efield, j + 1) = Row(efield, j)
            /\ Row(hfield, j + 1) = Row(hfield, j))

\* simulate() has ended with the error in its second iteration, on a
\* current field of two rows for a Sim of three; the electric rows written
\* are not zero.
C17_Witness ==
    /\ pc = "raised"
    /\ err = "IndexError"
    /\ num_n = 3
    /\ cfield.num_n = 2
    /\ j = 1
    /\ \E i \in Columns : At(efield, 0, i) # 0
    /\ \E i \in Columns : At(efield, 1, i) # At(efield, 0, i)

\* The orders in which a pass can visit the columns 0 .. num_i - 1.
Orders ==
    {p \in [1..num_i -> Columns] :
        \A a, b \in 1..num_i : a # b => p[a] # p[b]}

\* The magnetic pass writing its cells in place, in the order given.
RECURSIVE calc_hfield_order(_, _, _)
calc_hfield_order(h, e, order) ==
    IF order = <<>>
    THEN h
    ELSE calc_hfield_order(
             set_index(h, Head(order),
                       calc_hfield_value(h, e, Head(order))).f,
             e, Tail(order))

\* The magnetic pass computing every cell from the rows of before the pass.
calc_hfield_snapshot ==
    [hfield EXCEPT !.field[hfield.n + 1] =
        [c \in 1..num_i |-> calc_hfield_value(hfield, efield, c - 1)]]

\* The electric pass writing its cells in place, in the order given.
RECURSIVE calc_efield_order(_, _, _)
calc_efield_order(e, h, order) ==
    IF order = <<>>
    THEN e
    ELSE calc_efield_order(
             set_index(e, Head(order),
                       calc_efield_value(e, h, Head(order))).f,
             h, Tail(order))

\* The electric pass computing every cell from the rows of before the pass.
calc_efield_snapshot ==
    [efield EXCEPT !.field[efield.n + 1] =
        [c \in 1..num_i |-> calc_efield_value(efield, hfield, c - 1)]]

\* C18: wherever a pass is about to run, visiting the columns in any order,
\* or computing all cells from the rows of before the pass, yields the row
\* the ascending in-place loop yields.
C18_OrderIndependent ==
    /\ pc = "calc_hfield" =>
         /\ calc_hfield_snapshot = calc_hfield
         /\ \A p \in Orders : calc_hfield_order(hfield, efield, p) = calc_hfield
    /\ pc = "calc_efield" =>
         /\ calc_efield_snapshot = calc_efield
         /\ \A p \in Orders : calc_efield_order(efield, hfield, p) = calc_efield

\* The electric pass of the second iteration is about to run over several
\* columns, on magnetic and electric rows that are not zero, and will
\* change the electric row.
C18_Witness ==
    /\ pc = "calc_efield"
    /\ j = 1
    /\ num_i >= 3
    /\ \E i \in Columns : At(hfield, 1, i) # 0
    /\ \E i \in Columns : At(efield, 1, i) # 0
    /\ calc_efield # efield

\* C19: after simulate() on a constructed Sim, row 0 of the electric grid
\* and row 0 of the magnetic grid are all zero, for any current field.
C19_FirstRowZero ==
    (pc = "done" /\ num_n >= 1) =>
        \A i \in Columns : At(efield, 0, i) = 0 /\ At(hfield, 0, i) = 0

\* C20: after simulate() on a Sim with num_n >= 2 the last two rows of the
\* electric grid are equal, and so are those of the magnetic grid.
C20_LastRows ==
    (pc = "done" /\ num_n >= 2) =>
        /\ Row(efield, num_n - 2) = Row(efield, num_n - 1)
        /\ Row(hfield, num_n - 2) = Row(hfield, num_n - 1)

\* simulate() has ended on three rows; the last electric and the last
\* magnetic row are not zero and differ from row 0.
C20_Witness ==
    /\ pc = "done"
    /\ num_n = 3
    /\ \E i \in Columns : At(efield, 2, i) # At(efield, 0, i)
    /\ \E i \in Columns : At(hfield, 2, i) # At(hfield, 0, i)

====
